---------------------------- MODULE Spec2Model ----------------------------
(***************************************************************************)
(* Model of the chat loop of rag_chatbot.py: the generator handlers        *)
(* respond / use_sample_question, the worker thread get_llm_response they  *)
(* start, chat_with_bill / initialize_chatbot run by that thread, and the  *)
(* pure animator get_next_animation_frame.                                 *)
(*                                                                         *)
(* Text is modelled as a sequence of tokens, so that concatenation (\o),   *)
(* strip() and "contains" are computed and not assumed.  A typed message   *)
(* is a sequence of characters/tokens, " " being whitespace.               *)
(*                                                                         *)
(* Each event (msg.submit, btn.click) runs its handler on a copy of the    *)
(* value the chatbot component holds at that time; every yield of a        *)
(* handler replaces the component's value (display).  The source installs  *)
(* no guard between events (lines 301-311), so handlers of one session may *)
(* overlap; MaxHandlers bounds how many do.                                *)
(***************************************************************************)
EXTENDS Integers, Sequences, FiniteSets, TLC

VARIABLES
    display,            \* value of the gr.Chatbot component (line 180)
    rag_chain,          \* module global (line 25)
    lpc,                \* position of each handler (generator) instance
    fn,                 \* which function the handler instance runs
    message,            \* the handler's message / question argument
    chat_history,       \* the handler's chat_history argument
    result_container,   \* the handler's dict (lines 247 / 277)
    animation_counter,  \* the handler's local counter (lines 259 / 289)
    wpc,                \* position of the handler's worker thread
    wret,               \* value chat_with_bill is about to return
    emitted,            \* history: what each handler has yielded so far
    invokes,            \* history: rag_chain.invoke calls of the current worker
    started,            \* history: threads started by the current handler run
    nevents,            \* history: number of UI events so far
    last_event,         \* history: the last UI event
    turnlog,            \* history: accepted questions and the worker's result
    turn_ix,            \* history: index in turnlog of each handler's turn
    overlap             \* history: some question started while another was pending

vars == <<display, rag_chain, lpc, fn, message, chat_history, result_container,
          animation_counter, wpc, wret, emitted, invokes, started, nevents,
          last_event, turnlog, turn_ix, overlap>>

progvars == <<display, rag_chain, lpc, fn, message, chat_history,
              result_container, animation_counter, wpc, wret>>

-----------------------------------------------------------------------------
(* Bounds *)

MaxHandlers == 2

MaxEvents == 2

MaxOverlapEvents == 2

MaxTick == 3

MaxAnimTick == 64

H == 1..MaxHandlers

-----------------------------------------------------------------------------
(* Text *)

None == <<"None">>

NoChain == "None"

Chain == "RetrievalQA"

base_text == <<"Analyzing your question">>

Placeholder == <<"Analyzing your question">>

PlaceholderSample == <<"Analyzing your question">>

NotAvailable == <<"Analysis system is not available. Please check the console for errors (e.g., missing API key or vector database).">>

NoAnswer == <<"Sorry, I could not find an answer.">>

ErrorPrefix == <<"An error occurred: ">>

AttributeErrorText == <<"'NoneType' object has no attribute 'invoke'">>

Whitespace == {" "}

TypedMessages == {<<>>, <<" ">>, <<" ", "Q1">>}

sample_questions == {<<"S1">>}

Responses == {[result |-> <<"A1">>], [source_documents |-> <<>>]}

Exceptions == {<<"timeout">>, <<"quota", "exceeded">>}

Dots(n) == [i \in 1..n |-> "."]

\* "." * k
Repeat(k) == Dots(k)

\* variant: the shrinking phase is one dot short
get_next_animation_frame_wrongshrink(counter) ==
    LET cycle_position == counter % 8
        dots == IF cycle_position <= 4 THEN Repeat(cycle_position)
                                       ELSE Repeat(7 - cycle_position)
    IN  base_text \o dots

get_next_animation_frame(counter) ==
    LET cycle_position == counter % 8
        dots == IF cycle_position <= 4 THEN Repeat(cycle_position)
                                       ELSE Repeat(8 - cycle_position)
    IN  base_text \o dots

RECURSIVE lstrip(_)
lstrip(s) == IF s # <<>> /\ Head(s) \in Whitespace THEN lstrip(Tail(s)) ELSE s

RECURSIVE rstrip(_)
rstrip(s) == IF s # <<>> /\ s[Len(s)] \in Whitespace
             THEN rstrip(SubSeq(s, 1, Len(s) - 1)) ELSE s

\* variant: nothing is stripped
strip_none(s) == s

strip(s) == rstrip(lstrip(s))

\* dict.get(key, default)
Get(d, key, default) == IF key \in DOMAIN d THEN d[key] ELSE default

\* f"An error occurred: {e}"
ErrorString(e) == ErrorPrefix \o e

\* s contains t as a contiguous run of tokens
Contains(s, t) ==
    \E i \in 0..(Len(s) - Len(t)) : SubSeq(s, i + 1, i + Len(t)) = t

\* variant: the first turn is written in place of the last
ReplaceLast_first(hist, turn) == [hist EXCEPT ![1] = turn]

\* chat_history[-1] = turn
ReplaceLast(hist, turn) == [hist EXCEPT ![Len(hist)] = turn]

\* variant: the new turn replaces the last one
AppendTurn_overwrite(hist, q) ==
    IF hist = <<>> THEN <<<<q, Placeholder>>>> ELSE ReplaceLast(hist, <<q, Placeholder>>)

\* line 243: chat_history.append((message, "Analyzing your question"))
AppendTurn(hist, q) == Append(hist, <<q, Placeholder>>)

\* variant: the preset path shows another waiting text
AppendTurnSample_other(hist, q) == Append(hist, <<q, <<"Thinking">>>>)

\* line 273: chat_history.append((question, "Analyzing your question"))
AppendTurnSample(hist, q) == Append(hist, <<q, PlaceholderSample>>)

-----------------------------------------------------------------------------
(* State *)

NoContainer == [response |-> None, done |-> FALSE]

NoEvent == [kind |-> "none", message |-> <<>>]

NoResponse == [none |-> TRUE]

Active(h) == lpc[h] # "idle"

AwaitingAnswer(h) == lpc[h] \in {"spawn", "test", "body", "final"}

Resolved(h) == lpc[h] = "resolved"

Free == {h \in H : ~Active(h)}

Init ==
    /\ display = <<>>
    /\ rag_chain \in {NoChain, Chain}
    /\ lpc = [h \in H |-> "idle"]
    /\ fn = [h \in H |-> "none"]
    /\ message = [h \in H |-> <<>>]
    /\ chat_history = [h \in H |-> <<>>]
    /\ result_container = [h \in H |-> NoContainer]
    /\ animation_counter = [h \in H |-> 0]
    /\ wpc = [h \in H |-> "none"]
    /\ wret = [h \in H |-> None]
    /\ emitted = [h \in H |-> <<>>]
    /\ invokes = [h \in H |-> 0]
    /\ started = [h \in H |-> 0]
    /\ nevents = 0
    /\ last_event = NoEvent
    /\ turnlog = <<>>
    /\ turn_ix = [h \in H |-> 0]
    /\ overlap = FALSE


-----------------------------------------------------------------------------
(* The handlers: respond (238-269) and use_sample_question (271-299) *)

Min(S) == CHOOSE x \in S : \A y \in S : x <= y

Emission(kind, tick, transcript) ==
    [kind |-> kind, tick |-> tick, transcript |-> transcript]

\* lines 243-244 / 273-274: append the turn and yield it
StartTurn(h, f, q) ==
    LET hist == IF f = "respond" THEN AppendTurn(display, q)
                                 ELSE AppendTurnSample(display, q) IN
    /\ chat_history' = [chat_history EXCEPT ![h] = hist]
    /\ display' = hist
    /\ lpc' = [lpc EXCEPT ![h] = "spawn"]
    /\ fn' = [fn EXCEPT ![h] = f]
    /\ message' = [message EXCEPT ![h] = q]
    /\ emitted' = [emitted EXCEPT ![h] = <<Emission("placeholder", 0, hist)>>]
    /\ turnlog' = Append(turnlog, [q |-> q, r |-> None, exc |-> None, resp |-> NoResponse, init |-> "none"])
    /\ turn_ix' = [turn_ix EXCEPT ![h] = Len(turnlog) + 1]
    /\ overlap' = (overlap \/ \E g \in H \ {h} : AwaitingAnswer(g))
    /\ UNCHANGED <<rag_chain, result_container, animation_counter, wpc, wret,
                   invokes, started>>

\* msg.submit(respond, [msg, chatbot], [chatbot, msg]), lines 238-244 and 302.
\* A generator that returns before its first yield yields nothing.
Respond(m) ==
    /\ nevents' = nevents + 1
    /\ last_event' = [kind |-> "submit", message |-> m]
    /\ IF strip(m) = <<>>
       THEN UNCHANGED <<progvars, emitted, invokes, started, turnlog, turn_ix,
                        overlap>>
       ELSE /\ Free # {}
            /\ StartTurn(Min(Free), "respond", m)

\* btn.click(fn=partial(use_sample_question, question), ...), lines 271-274, 305-311
UseSampleQuestion(q) ==
    /\ nevents' = nevents + 1
    /\ last_event' = [kind |-> "click", message |-> q]
    /\ Free # {}
    /\ StartTurn(Min(Free), "use_sample_question", q)

\* lines 247-259 / 277-289: the container, the thread, the counter
Spawn(h) ==
    /\ lpc[h] = "spawn"
    /\ result_container' = [result_container EXCEPT ![h] = NoContainer]
    /\ wpc' = [wpc EXCEPT ![h] = "check"]
    /\ started' = [started EXCEPT ![h] = @ + 1]
    /\ animation_counter' = [animation_counter EXCEPT ![h] = 0]
    /\ lpc' = [lpc EXCEPT ![h] = "test"]
    /\ UNCHANGED <<display, rag_chain, fn, message, chat_history, wret, emitted,
                   invokes, nevents, last_event, turnlog, turn_ix, overlap>>

\* variant: the loop gives up after two frames
LoopCondition_timeout(h) == ~result_container[h]["done"] /\ animation_counter[h] < 2

\* line 260: while not result_container["done"]
LoopCondition(h) == ~result_container[h]["done"]

\* line 290: while not result_container["done"]
LoopConditionSample(h) == ~result_container[h]["done"]

\* variant: the counter is not incremented
NextCounter_stuck(c) == c

\* line 261: animation_counter += 1
NextCounter(c) == c + 1

\* line 291: animation_counter += 1
NextCounterSample(c) == c + 1

\* variant: the frame is computed before the counter is incremented
AnimatedText_stale(h, c) == get_next_animation_frame(animation_counter[h])

\* line 262: animated_text = get_next_animation_frame(animation_counter)
AnimatedText(h, c) == get_next_animation_frame(c)

\* line 292: animated_text = get_next_animation_frame(animation_counter)
AnimatedTextSample(h, c) == get_next_animation_frame(c)

\* line 260 / 290: the loop condition is evaluated.  The counter is capped at
\* MaxTick: a loop that has reached the cap waits for the flag.
PollTest(h) ==
    /\ lpc[h] = "test"
    /\ IF (IF fn[h] = "respond" THEN LoopCondition(h) ELSE LoopConditionSample(h))
       THEN /\ animation_counter[h] < MaxTick
            /\ lpc' = [lpc EXCEPT ![h] = "body"]
       ELSE lpc' = [lpc EXCEPT ![h] = "final"]
    /\ UNCHANGED <<display, rag_chain, fn, message, chat_history,
                   result_container, animation_counter, wpc, wret, emitted,
                   invokes, started, nevents, last_event, turnlog, turn_ix,
                   overlap>>

\* lines 261-265 / 291-295: the loop body up to the end of its sleep
PollBody(h) ==
    LET c    == IF fn[h] = "respond" THEN NextCounter(animation_counter[h])
                                     ELSE NextCounterSample(animation_counter[h])
        animated_text == IF fn[h] = "respond" THEN AnimatedText(h, c)
                                              ELSE AnimatedTextSample(h, c)
        hist == ReplaceLast(chat_history[h], <<message[h], animated_text>>)
    IN
    /\ lpc[h] = "body"
    /\ animation_counter' = [animation_counter EXCEPT ![h] = c]
    /\ chat_history' = [chat_history EXCEPT ![h] = hist]
    /\ display' = hist
    /\ emitted' = [emitted EXCEPT ![h] = Append(@, Emission("frame", c, hist))]
    /\ lpc' = [lpc EXCEPT ![h] = "test"]
    /\ UNCHANGED <<rag_chain, fn, message, result_container, wpc, wret, invokes,
                   started, nevents, last_event, turnlog, turn_ix, overlap>>

\* variant: one more frame is written in place of the result
FinalTurn_frame(h) == <<message[h], get_next_animation_frame(animation_counter[h] + 1)>>

\* line 268: (message, result_container["response"])
FinalTurn(h) == <<message[h], result_container[h]["response"]>>

\* line 298: (question, result_container["response"])
FinalTurnSample(h) == <<message[h], result_container[h]["response"]>>

\* lines 268-269 / 298-299
Final(h) ==
    LET hist == ReplaceLast(chat_history[h],
                            IF fn[h] = "respond" THEN FinalTurn(h)
                                                 ELSE FinalTurnSample(h)) IN
    /\ lpc[h] = "final"
    /\ chat_history' = [chat_history EXCEPT ![h] = hist]
    /\ display' = hist
    /\ emitted' = [emitted EXCEPT ![h] =
                      Append(@, Emission("final", animation_counter[h], hist))]
    /\ lpc' = [lpc EXCEPT ![h] = "resolved"]
    /\ UNCHANGED <<rag_chain, fn, message, result_container, animation_counter,
                   wpc, wret, invokes, started, nevents, last_event, turnlog,
                   turn_ix, overlap>>

\* the generator is resumed after its last yield and runs off its end
Return(h) ==
    /\ lpc[h] = "resolved"
    /\ lpc' = [lpc EXCEPT ![h] = "idle"]
    /\ fn' = [fn EXCEPT ![h] = "none"]
    /\ message' = [message EXCEPT ![h] = <<>>]
    /\ chat_history' = [chat_history EXCEPT ![h] = <<>>]
    /\ result_container' = [result_container EXCEPT ![h] = NoContainer]
    /\ animation_counter' = [animation_counter EXCEPT ![h] = 0]
    /\ wpc' = [wpc EXCEPT ![h] = "none"]
    /\ wret' = [wret EXCEPT ![h] = None]
    /\ emitted' = [emitted EXCEPT ![h] = <<>>]
    /\ invokes' = [invokes EXCEPT ![h] = 0]
    /\ started' = [started EXCEPT ![h] = 0]
    /\ turn_ix' = [turn_ix EXCEPT ![h] = 0]
    /\ UNCHANGED <<display, rag_chain, nevents, last_event, turnlog, overlap>>

-----------------------------------------------------------------------------
(* The worker thread: get_llm_response (249-251), chat_with_bill (98-118) *)

\* variant: initialization is attempted for every question
ChainMissing_always == TRUE

\* rag_chain is None
ChainMissing == rag_chain = NoChain

\* line 100: if rag_chain is None
WorkerCheck(h) ==
    /\ wpc[h] = "check"
    /\ wpc' = [wpc EXCEPT ![h] = IF ChainMissing THEN "init" ELSE "call"]
    /\ UNCHANGED <<display, rag_chain, lpc, fn, message, chat_history,
                   result_container, animation_counter, wret, emitted, invokes,
                   started, nevents, last_event, turnlog, turn_ix, overlap>>

InitOutcomes == {"ok", "unavailable", "raised"}

\* lines 102-103 with initialize_chatbot (27-96): "unavailable" is one of the
\* early returns (30-37), "raised" the except branch (93-96)
WorkerInit(h, outcome) ==
    /\ wpc[h] = "init"
    /\ outcome \in InitOutcomes
    /\ rag_chain' = CASE outcome = "ok" -> Chain
                      [] outcome = "unavailable" -> rag_chain
                      [] outcome = "raised" -> NoChain
    /\ IF outcome = "ok"
       THEN /\ wpc' = [wpc EXCEPT ![h] = "call"]
            /\ wret' = wret
            /\ turnlog' = [turnlog EXCEPT ![turn_ix[h]]["init"] = outcome]
       ELSE /\ wpc' = [wpc EXCEPT ![h] = "store"]
            /\ wret' = [wret EXCEPT ![h] = NotAvailable]
            /\ turnlog' = [turnlog EXCEPT ![turn_ix[h]]["r"] = NotAvailable,
                                          ![turn_ix[h]]["init"] = outcome]
    /\ UNCHANGED <<display, lpc, fn, message, chat_history, result_container,
                   animation_counter, emitted, invokes, started, nevents,
                   last_event, turn_ix, overlap>>

\* variant: the call is made again after an exception
ExceptHandler_retry(h, e) ==
    /\ wpc' = [wpc EXCEPT ![h] = "call"]
    /\ wret' = wret
    /\ turnlog' = [turnlog EXCEPT ![turn_ix[h]]["exc"] = e]

\* variant: the exception is not caught and ends the thread
ExceptHandler_propagate(h, e) ==
    /\ wpc' = [wpc EXCEPT ![h] = "finished"]
    /\ wret' = wret
    /\ turnlog' = [turnlog EXCEPT ![turn_ix[h]]["exc"] = e]

\* lines 116-118
ExceptHandler(h, e) ==
    /\ wpc' = [wpc EXCEPT ![h] = "store"]
    /\ wret' = [wret EXCEPT ![h] = ErrorString(e)]
    /\ turnlog' = [turnlog EXCEPT ![turn_ix[h]]["r"] = ErrorString(e),
                                  ![turn_ix[h]]["exc"] = e]

\* line 107: rag_chain.invoke({"query": question}); the global is read again
\* here, and the attribute lookup on None raises inside the try
WorkerInvoke(h) ==
    /\ wpc[h] = "call"
    /\ IF rag_chain = NoChain
       THEN /\ ExceptHandler(h, AttributeErrorText)
            /\ UNCHANGED invokes
       ELSE /\ wpc' = [wpc EXCEPT ![h] = "invoking"]
            /\ invokes' = [invokes EXCEPT ![h] = @ + 1]
            /\ UNCHANGED <<wret, turnlog>>
    /\ UNCHANGED <<display, rag_chain, lpc, fn, message, chat_history,
                   result_container, animation_counter, emitted, started,
                   nevents, last_event, turn_ix, overlap>>

\* lines 107-115: the provider returns a dict
ProviderReturns(h, response) ==
    /\ wpc[h] = "invoking"
    /\ wpc' = [wpc EXCEPT ![h] = "store"]
    /\ wret' = [wret EXCEPT ![h] = Get(response, "result", NoAnswer)]
    /\ turnlog' = [turnlog EXCEPT ![turn_ix[h]]["r"] = Get(response, "result", NoAnswer),
                                  ![turn_ix[h]]["resp"] = response]
    /\ UNCHANGED <<display, rag_chain, lpc, fn, message, chat_history,
                   result_container, animation_counter, emitted, invokes,
                   started, nevents, last_event, turn_ix, overlap>>

\* lines 107, 116-118: the provider raises
ProviderRaises(h, e) ==
    /\ wpc[h] = "invoking"
    /\ ExceptHandler(h, e)
    /\ UNCHANGED <<display, rag_chain, lpc, fn, message, chat_history,
                   result_container, animation_counter, emitted, invokes,
                   started, nevents, last_event, turn_ix, overlap>>

\* line 107: the provider call never returns
ProviderHangs(h) ==
    /\ wpc[h] = "invoking"
    /\ wpc' = [wpc EXCEPT ![h] = "hung"]
    /\ UNCHANGED <<display, rag_chain, lpc, fn, message, chat_history,
                   result_container, animation_counter, wret, emitted, invokes,
                   started, nevents, last_event, turnlog, turn_ix, overlap>>

\* variant: the flag is set where the result should be stored
WorkerStore_flagfirst(h) ==
    /\ wpc[h] = "store"
    /\ result_container' = [result_container EXCEPT ![h]["done"] = TRUE]
    /\ wpc' = [wpc EXCEPT ![h] = "setdone"]
    /\ UNCHANGED <<display, rag_chain, lpc, fn, message, chat_history,
                   animation_counter, wret, emitted, invokes, started, nevents,
                   last_event, turnlog, turn_ix, overlap>>

\* line 250: result_container["response"] = chat_with_bill(...)
WorkerStore(h) ==
    /\ wpc[h] = "store"
    /\ result_container' = [result_container EXCEPT ![h]["response"] = wret[h]]
    /\ wpc' = [wpc EXCEPT ![h] = "setdone"]
    /\ UNCHANGED <<display, rag_chain, lpc, fn, message, chat_history,
                   animation_counter, wret, emitted, invokes, started, nevents,
                   last_event, turnlog, turn_ix, overlap>>

\* line 251: result_container["done"] = True
WorkerSetDone(h) ==
    /\ wpc[h] = "setdone"
    /\ result_container' = [result_container EXCEPT ![h]["done"] = TRUE]
    /\ wpc' = [wpc EXCEPT ![h] = "finished"]
    /\ UNCHANGED <<display, rag_chain, lpc, fn, message, chat_history,
                   animation_counter, wret, emitted, invokes, started, nevents,
                   last_event, turnlog, turn_ix, overlap>>

-----------------------------------------------------------------------------

Worker(h) ==
    \/ WorkerCheck(h)
    \/ \E outcome \in InitOutcomes : WorkerInit(h, outcome)
    \/ WorkerInvoke(h)
    \/ \E response \in Responses : ProviderReturns(h, response)
    \/ \E e \in Exceptions : ProviderRaises(h, e)
    \/ WorkerStore(h)
    \/ WorkerSetDone(h)

Loop(h) == Spawn(h) \/ PollTest(h) \/ PollBody(h) \/ Final(h) \/ Return(h)

\* a step of a running handler or of its worker thread
Step ==
    \/ \E h \in H : Loop(h)
    \/ \E h \in H : Worker(h)
    \/ \E h \in H : ProviderHangs(h)

\* no handler of the session is running: the previous event has completed
SingleFlight == \A h \in H : ~Active(h)

\* The session used one question at a time: an event (msg.submit, line 302; a
\* sample button, lines 305-311) is dispatched when the previous one has
\* completed.
Submit(m) == SingleFlight /\ nevents < MaxEvents /\ Respond(m)

Click(q) == SingleFlight /\ nevents < MaxEvents /\ UseSampleQuestion(q)

Next ==
    \/ \E m \in TypedMessages : Submit(m)
    \/ \E q \in sample_questions : Click(q)
    \/ Step

Spec == Init /\ [][Next]_vars

\* The events as lines 301-311 register them: nothing keeps an event from
\* being dispatched while a handler of the session is running.
OverlapSubmit(m) == nevents < MaxOverlapEvents /\ Respond(m)

OverlapClick(q) == nevents < MaxOverlapEvents /\ UseSampleQuestion(q)

OverlapNext ==
    \/ \E m \in TypedMessages : OverlapSubmit(m)
    \/ \E q \in sample_questions : OverlapClick(q)
    \/ Step

OverlapSpec == Init /\ [][OverlapNext]_vars

\* Both threads are scheduled, and a provider call that does not hang ends.
FairSpec ==
    /\ Spec
    /\ \A h \in H : WF_vars(Loop(h))
    /\ \A h \in H : WF_vars(Worker(h))

-----------------------------------------------------------------------------
(* The animator on its own: a turn whose provider call hangs, after any     *)
(* number of polls, runs the loop body once more.                           *)

AnimQuestion == <<"S1">>

AnimTurn(c) ==
    <<AnimQuestion, IF c = 0 THEN PlaceholderSample ELSE AnimatedTextSample(1, c)>>

AnimEmitted(c) ==
    [i \in 1..(c + 1) |->
        IF i = 1 THEN Emission("placeholder", 0, <<AnimTurn(0)>>)
                 ELSE Emission("frame", i - 1, <<AnimTurn(i - 1)>>)]

AnimInit ==
    \E c \in 0..MaxAnimTick :
        /\ display = <<AnimTurn(c)>>
        /\ rag_chain = Chain
        /\ lpc = [h \in H |-> IF h = 1 THEN "body" ELSE "idle"]
        /\ fn = [h \in H |-> IF h = 1 THEN "use_sample_question" ELSE "none"]
        /\ message = [h \in H |-> IF h = 1 THEN AnimQuestion ELSE <<>>]
        /\ chat_history = [h \in H |-> IF h = 1 THEN <<AnimTurn(c)>> ELSE <<>>]
        /\ result_container = [h \in H |-> NoContainer]
        /\ animation_counter = [h \in H |-> IF h = 1 THEN c ELSE 0]
        /\ wpc = [h \in H |-> IF h = 1 THEN "hung" ELSE "none"]
        /\ wret = [h \in H |-> None]
        /\ emitted = [h \in H |-> IF h = 1 THEN AnimEmitted(c) ELSE <<>>]
        /\ invokes = [h \in H |-> IF h = 1 THEN 1 ELSE 0]
        /\ started = [h \in H |-> IF h = 1 THEN 1 ELSE 0]
        /\ nevents = 1
        /\ last_event = [kind |-> "click", message |-> AnimQuestion]
        /\ turnlog = <<[q |-> AnimQuestion, r |-> None, exc |-> None, resp |-> NoResponse, init |-> "none"]>>
        /\ turn_ix = [h \in H |-> IF h = 1 THEN 1 ELSE 0]
        /\ overlap = FALSE

AnimNext == \E h \in H : PollBody(h)

AnimSpec == AnimInit /\ [][AnimNext]_vars

-----------------------------------------------------------------------------
(* Properties *)

Last(s) == s[Len(s)]

AllIdle == \A h \in H : ~Active(h)

IsWhitespaceOnly(m) == \A i \in DOMAIN m : m[i] \in Whitespace

DotTable == <<0, 1, 2, 3, 4, 3, 2, 1>>

\* the strings the loop shows while a turn is pending
PendingTexts == {Placeholder} \cup {base_text \o Dots(d) : d \in 0..4}

\* C1: once the loop has left the while on done = true and written the final
\* turn, the last turn of the handler's transcript is (question, stored result),
\* the stored result being what chat_with_bill returned, and that is what the
\* component shows; from the moment the loop has observed the flag the only write
\* to the transcript is that one (no frame is written over the answer).
C1_Inv ==
    \A h \in H : Resolved(h) =>
        /\ result_container[h]["done"]
        /\ result_container[h]["response"] = turnlog[turn_ix[h]]["r"]
        /\ result_container[h]["response"] # None
        /\ Last(chat_history[h]) = <<message[h], result_container[h]["response"]>>
        /\ Last(emitted[h])["transcript"] = chat_history[h]

C1_Step ==
    \A h \in H :
        (lpc[h] \in {"final", "resolved"} /\ chat_history'[h] # chat_history[h]) =>
            \/ /\ lpc[h] = "final"
               /\ lpc'[h] = "resolved"
               /\ Last(chat_history'[h]) = <<message[h], result_container[h]["response"]>>
            \/ /\ lpc[h] = "resolved"
               /\ lpc'[h] = "idle"

\* C1: the final answer of a resolved turn is the stored result (C1_Inv in
\* every state) and no write follows the observation of the flag other than
\* that of the result (C1_Step in every step).
C1_FinalAnswerStays == [](C1_Inv) /\ [][C1_Step]_vars

C1_Witness ==
    \E h \in H : /\ Resolved(h)
                 /\ animation_counter[h] >= 1
                 /\ Last(chat_history[h]) = <<message[h], <<"A1">>>>

\* C2: the frames a handler has yielded carry strictly increasing ticks, the
\* final answer is yielded exactly once by a resolved turn and nothing is
\* yielded after it.
C2_EmissionOrder ==
    \A h \in H :
        LET e == emitted[h] IN
        /\ \A i, j \in DOMAIN e :
              (i < j /\ e[i]["kind"] = "frame" /\ e[j]["kind"] = "frame")
                 => e[i]["tick"] < e[j]["tick"]
        /\ \A i \in DOMAIN e : e[i]["kind"] = "final" => i = Len(e)
        /\ Resolved(h) => (e # <<>> /\ Last(e)["kind"] = "final")
        /\ AwaitingAnswer(h) => \A i \in DOMAIN e : e[i]["kind"] # "final"

C2_Witness ==
    \E h \in H : /\ Resolved(h)
                 /\ Len(emitted[h]) >= 4
                 /\ emitted[h][3]["kind"] = "frame"

\* C3: when the provider call raised, the string returned for the turn is one
\* fixed string, the same for every exception, and does not contain the
\* exception's text.
C3_FixedErrorString ==
    \A i, j \in DOMAIN turnlog :
        (turnlog[i]["exc"] # None /\ turnlog[j]["exc"] # None) =>
            /\ turnlog[i]["r"] = turnlog[j]["r"]
            /\ ~Contains(turnlog[i]["r"], turnlog[i]["exc"])

\* C4: under fair scheduling of the loop and of the worker, a turn that is
\* awaiting its answer is eventually resolved, unless its provider call hangs.
C4_EventuallyResolved ==
    \A h \in H : AwaitingAnswer(h) ~> (Resolved(h) \/ wpc[h] = "hung")

C4_Witness ==
    \E h \in H : /\ Resolved(h)
                 /\ turnlog[turn_ix[h]]["exc"] # None
                 /\ result_container[h]["done"]

\* a container whose flag is still false, with its worker thread running
PendingRequestActive(h) ==
    /\ wpc[h] \notin {"none", "finished"}
    /\ ~result_container[h]["done"]

\* C5: at most one PendingRequest is active, and at most one turn of the
\* transcript is awaiting its answer.
C5_SinglePending ==
    /\ Cardinality({h \in H : PendingRequestActive(h)}) <= 1
    /\ Cardinality({h \in H : AwaitingAnswer(h)}) <= 1

\* C6: once every handler has finished, each accepted question is in the
\* transcript shown, with the answer its worker returned: none is lost or
\* overwritten.
C6_NoTurnLost ==
    AllIdle =>
        \A i \in DOMAIN turnlog :
            \E j \in DOMAIN display : display[j] = <<turnlog[i]["q"], turnlog[i]["r"]>>

\* C7: after n accepted questions asked one after another, the transcript
\* has exactly n turns in submission order, turn i holding question i and the
\* string chat_with_bill returned for it, none of them a pending text.
C7_SequentialTranscript ==
    AllIdle =>
        /\ Len(display) = Len(turnlog)
        /\ \A i \in DOMAIN turnlog :
              /\ display[i] = <<turnlog[i]["q"], turnlog[i]["r"]>>
              /\ display[i][2] \notin PendingTexts
              /\ display[i][2] # None
              /\ "result" \in DOMAIN turnlog[i]["resp"]
                    => display[i][2] = turnlog[i]["resp"]["result"]

C7_Witness ==
    /\ AllIdle
    /\ Len(display) = 2
    /\ display[1][1] # display[2][1]
    /\ turnlog[1]["exc"] # None
    /\ "result" \in DOMAIN turnlog[2]["resp"]

\* C8: a submit event whose message is empty or whitespace only changes
\* nothing: transcript, handlers, workers, containers and emissions are as
\* before.
C8_EmptyIsNoOp ==
    [][(/\ nevents' = nevents + 1
        /\ last_event'["kind"] = "submit"
        /\ IsWhitespaceOnly(last_event'["message"]))
          => UNCHANGED <<progvars, emitted, started, invokes, turnlog>>]_vars

C8_Witness ==
    /\ last_event["kind"] = "submit"
    /\ last_event["message"] = <<" ">>
    /\ Len(display) = 1
    /\ AllIdle

\* C9: for the tick t a loop holds, get_next_animation_frame(t) is the label
\* followed by d(t) dots, d(t) being entry t mod 8 of 0,1,2,3,4,3,2,1; and
\* every frame yielded with tick t is that string.
C9_FrameShape ==
    \A h \in H :
        /\ LET t == animation_counter[h] IN
              get_next_animation_frame(t) = base_text \o Dots(DotTable[(t % 8) + 1])
        /\ \A i \in DOMAIN emitted[h] :
              emitted[h][i]["kind"] = "frame" =>
                 Last(emitted[h][i]["transcript"])[2]
                    = base_text \o Dots(DotTable[(emitted[h][i]["tick"] % 8) + 1])

C9_Witness ==
    \E h \in H : /\ emitted[h] # <<>>
                 /\ Last(emitted[h])["kind"] = "frame"
                 /\ lpc[h] = "test"
                 /\ Last(emitted[h])["tick"] = 13
                 /\ Last(chat_history[h])[2] = base_text \o <<".", ".", ".">>

\* C10: a handler run starts exactly one worker, the worker calls the
\* provider at most once, and exactly once when it reached line 107 with the
\* handle set (its provider call is in flight, returned or raised).
C10_OneInvocation ==
    \A h \in H :
        /\ invokes[h] <= 1
        /\ started[h] = (IF lpc[h] \in {"idle", "spawn"} THEN 0 ELSE 1)
        /\ wpc[h] \in {"invoking", "hung"} => invokes[h] = 1
        /\ wpc[h] \in {"none", "check", "init", "call"} => invokes[h] = 0
        /\ wpc[h] \in {"store", "setdone", "finished"} =>
              invokes[h] = (IF wret[h] \in {NotAvailable, ErrorString(AttributeErrorText)}
                            THEN 0 ELSE 1)

C10_Witness ==
    \E h \in H : /\ wpc[h] = "finished"
                 /\ invokes[h] = 1
                 /\ turnlog[turn_ix[h]]["exc"] # None

\* turn i of the session ended in an error answer: its provider call raised,
\* or the chain could not be initialized
ErrorTurn(i) ==
    /\ i \in DOMAIN turnlog
    /\ (turnlog[i]["exc"] # None \/ turnlog[i]["init"] \in {"unavailable", "raised"})

ErrorAnswers == {NotAvailable} \cup {ErrorPrefix \o e : e \in Exceptions \cup {AttributeErrorText}}

C11_Inv ==
    /\ \A h \in H :
          (Resolved(h) /\ ErrorTurn(turn_ix[h])) =>
              /\ Last(display) = <<message[h], turnlog[turn_ix[h]]["r"]>>
              /\ turnlog[turn_ix[h]]["r"] \in ErrorAnswers
    /\ \A h \in H :
          (Active(h) /\ turn_ix[h] >= 2 /\ ErrorTurn(turn_ix[h] - 1)) =>
              /\ Len(chat_history[h]) = turn_ix[h]
              /\ chat_history[h][turn_ix[h] - 1]
                    = <<turnlog[turn_ix[h] - 1]["q"], turnlog[turn_ix[h] - 1]["r"]>>
              /\ Last(chat_history[h])[1] = message[h]
              /\ emitted[h][1]["kind"] = "placeholder"
              /\ started[h] = (IF lpc[h] = "spawn" THEN 0 ELSE 1)
              /\ Resolved(h) =>
                    /\ Last(chat_history[h]) = <<message[h], turnlog[turn_ix[h]]["r"]>>
                    /\ turnlog[turn_ix[h]]["r"] # None
                    /\ Last(emitted[h])["kind"] = "final"
    /\ (AllIdle /\ nevents < MaxEvents /\ turnlog # <<>> /\ ErrorTurn(Len(turnlog))) =>
          /\ \A q \in sample_questions : ENABLED Click(q)
          /\ \A m \in TypedMessages : ENABLED Submit(m)

\* C11: a turn whose provider call raised or whose chain initialization failed
\* is resolved with an error answer and its handler ends (the loop is idle
\* again); a question that follows is accepted and runs a full turn: appended
\* after the error turn, one worker started, resolved with its own answer.
C11_ErrorNotFatal ==
    /\ [](C11_Inv)
    /\ \A h \in H :
          (Active(h) /\ ErrorTurn(turn_ix[h])) ~> (AllIdle /\ ErrorTurn(Len(turnlog)))

C11_Witness ==
    \E h \in H : /\ Resolved(h)
                 /\ turn_ix[h] = 2
                 /\ ErrorTurn(1)
                 /\ turnlog[1]["exc"] # None
                 /\ "result" \in DOMAIN turnlog[2]["resp"]
                 /\ Len(emitted[h]) >= 3

C12_Inv ==
    \A h \in H :
        /\ result_container[h]["done"] =>
              /\ result_container[h]["response"] # None
              /\ result_container[h]["response"] = wret[h]
              /\ wpc[h] = "finished"
        /\ lpc[h] \in {"final", "resolved"} => result_container[h]["done"]
        /\ Resolved(h) =>
              /\ Last(chat_history[h])[2] = wret[h]
              /\ Last(chat_history[h])[2] # None

C12_Step ==
    \A h \in H :
        result_container'[h] # result_container[h] =>
            \/ /\ wpc[h] = "store" /\ wpc'[h] = "setdone"
               /\ result_container[h] = NoContainer
               /\ result_container'[h] = [response |-> wret[h], done |-> FALSE]
            \/ /\ wpc[h] = "setdone" /\ wpc'[h] = "finished"
               /\ ~result_container[h]["done"]
               /\ result_container'[h] = [result_container[h] EXCEPT !["done"] = TRUE]
            \/ /\ lpc[h] = "resolved" /\ lpc'[h] = "idle"

\* C12: the container of a turn is written by the turn's worker only, the
\* result once and before the flag, and the flag stays true until the handler
\* ends; whenever the loop has seen done = true, the response it copies is the
\* string chat_with_bill returned and not None.
C12_WrittenOnce == [](C12_Inv) /\ [][C12_Step]_vars

C12_Witness ==
    \E h \in H : /\ lpc[h] = "final"
                 /\ animation_counter[h] >= 1
                 /\ result_container[h] = [response |-> <<"A1">>, done |-> TRUE]

C13_Inv ==
    \A h \in H : Active(h) =>
        LET e == emitted[h]
            n == animation_counter[h]
        IN
        /\ e[1]["kind"] = "placeholder"
        /\ Last(e[1]["transcript"]) = <<message[h], <<"Analyzing your question">>>>
        /\ lpc[h] = "spawn" =>
              (wpc[h] = "none" /\ started[h] = 0 /\ Len(e) = 1 /\ n = 0)
        /\ lpc[h] \in {"test", "body", "final"} => Len(e) = n + 1
        /\ Resolved(h) => (Len(e) = n + 2 /\ e[n + 2]["kind"] = "final")
        /\ \A k \in 1..n :
              /\ e[k + 1]["kind"] = "frame"
              /\ e[k + 1]["tick"] = k
              /\ Last(e[k + 1]["transcript"])
                    = <<message[h], base_text \o Dots(DotTable[(k % 8) + 1])>>

C13_Step ==
    \A h \in H :
        /\ (lpc[h] = "spawn" /\ lpc'[h] # "spawn") =>
              (animation_counter'[h] = 0 /\ wpc'[h] = "check" /\ emitted'[h] = emitted[h])
        /\ (lpc[h] = "test" /\ lpc'[h] = "body") => ~result_container[h]["done"]
        /\ (lpc[h] = "test" /\ lpc'[h] # "test" /\ result_container[h]["done"]) =>
              (lpc'[h] = "final" /\ emitted'[h] = emitted[h])
        /\ (lpc[h] = "body" /\ lpc'[h] # "body") =>
              animation_counter'[h] = animation_counter[h] + 1
        /\ (lpc[h] # "body" /\ lpc'[h] # "idle") =>
              animation_counter'[h] = animation_counter[h]

\* C13: the turn (question, placeholder) is appended and yielded before the
\* worker is started, the counter being 0 when the loop starts; each poll
\* that finds the flag false increments the counter and then yields the frame
\* of the new value, so the k-th frame yielded is frame(k); a poll that finds
\* the flag true yields no frame, so a worker that completes before the first
\* poll leaves nothing between the placeholder and the final answer.
C13_PollOrder == [](C13_Inv) /\ [][C13_Step]_vars

C13_Witness ==
    \E h \in H : /\ Resolved(h)
                 /\ fn[h] = "respond"
                 /\ Len(emitted[h]) = 5
                 /\ emitted[h][4]["tick"] = 3

\* a worker that completed before the first poll
C13_NoFrameCase ==
    \E h \in H : Resolved(h) /\ Len(emitted[h]) = 2

C14_Step ==
    \A h \in H :
        /\ (lpc[h] = "idle" /\ lpc'[h] # "idle") =>
              /\ chat_history'[h]
                    = Append(display, <<message'[h], <<"Analyzing your question">>>>)
              /\ display' = chat_history'[h]
        /\ (Active(h) /\ lpc'[h] # "idle") =>
              /\ message'[h] = message[h]
              /\ Len(chat_history'[h]) = Len(chat_history[h])
              /\ \A i \in 1..(Len(chat_history[h]) - 1) :
                    chat_history'[h][i] = chat_history[h][i]
              /\ Last(chat_history'[h])[1] = Last(chat_history[h])[1]
              /\ Last(chat_history'[h])[1] = message[h]
              /\ chat_history'[h] # chat_history[h] => display' = chat_history'[h]

\* C14: a handler's transcript is the transcript shown when the question was
\* accepted plus one turn; while the turn runs its length, its earlier turns
\* and the question of its last turn stay as they are: only the answer of the
\* last turn is replaced, and each replacement is what the component shows.
C14_AppendOnly == [][C14_Step]_vars

C14_Witness ==
    \E h \in H : /\ Resolved(h)
                 /\ turn_ix[h] = 2
                 /\ Len(chat_history[h]) = 2
                 /\ Len(emitted[h]) >= 4
                 /\ chat_history[h][1] = <<turnlog[1]["q"], turnlog[1]["r"]>>

FailedInit == {"unavailable", "raised"}

\* the worker of turn j has gone past lines 100-103
PastInit(j) ==
    ~ \E h \in H : /\ Active(h)
                   /\ turn_ix[h] = j
                   /\ wpc[h] \in {"none", "check", "init"}

C15_Inv ==
    /\ \A h \in H :
          /\ wpc[h] = "init" => rag_chain = NoChain
          /\ wpc[h] \in {"invoking", "hung"} => rag_chain = Chain
          /\ (Active(h) /\ turnlog[turn_ix[h]]["init"] \in FailedInit) =>
                /\ invokes[h] = 0
                /\ rag_chain = NoChain
                /\ wret[h] = NotAvailable
    /\ \A i \in DOMAIN turnlog :
          turnlog[i]["init"] \in FailedInit =>
              /\ turnlog[i]["r"] = NotAvailable
              /\ turnlog[i]["resp"] = NoResponse
              /\ turnlog[i]["exc"] = None
    /\ \A i, j \in DOMAIN turnlog :
          /\ (j = i + 1 /\ turnlog[i]["init"] \in FailedInit /\ PastInit(j)) =>
                turnlog[j]["init"] # "none"
          /\ (i < j /\ turnlog[i]["init"] = "ok") => turnlog[j]["init"] = "none"
          /\ (i < j /\ turnlog[i]["resp"] # NoResponse) => turnlog[j]["init"] = "none"

C15_Step ==
    /\ rag_chain = Chain => rag_chain' = Chain
    /\ rag_chain' # rag_chain => \E h \in H : wpc[h] = "init" /\ wpc'[h] = "call"
    /\ \A h \in H :
          /\ invokes'[h] > invokes[h] => rag_chain # NoChain /\ wpc[h] = "call"
          /\ (wpc[h] = "init" /\ wpc'[h] = "store") =>
                /\ rag_chain' = NoChain
                /\ wret'[h] = NotAvailable
                /\ invokes'[h] = invokes[h]
          /\ (wpc[h] = "init" /\ wpc'[h] = "call") => rag_chain' = Chain

\* C15: the provider is called only with a chain in place; initialization is
\* attempted only while rag_chain is None; a failed attempt returns the fixed
\* 'not available' string, calls no provider and leaves rag_chain None, so the
\* next question attempts initialization again; after a successful attempt (or
\* any provider answer) no later sequential question attempts initialization.
C15_LazyInit == [](C15_Inv) /\ [][C15_Step]_vars

C15_Witness ==
    /\ AllIdle
    /\ Len(turnlog) = 2
    /\ turnlog[1]["init"] \in FailedInit
    /\ turnlog[1]["r"] = NotAvailable
    /\ turnlog[2]["init"] = "ok"
    /\ turnlog[2]["resp"] # NoResponse

Kinds(h) == {emitted[h][i]["kind"] : i \in DOMAIN emitted[h]}

C16_Inv ==
    \A h \in H :
        /\ wpc[h] = "hung" =>
              /\ ~result_container[h]["done"]
              /\ result_container[h]["response"] = None
              /\ lpc[h] \in {"test", "body"}
              /\ "final" \notin Kinds(h)
              /\ Len(emitted[h]) = animation_counter[h] + 1
        /\ lpc[h] \in {"final", "resolved"} => result_container[h]["done"]

C16_Step ==
    \A h \in H :
        /\ wpc[h] = "hung" =>
              /\ wpc'[h] = "hung"
              /\ animation_counter'[h] >= animation_counter[h]
              /\ emitted'[h] # emitted[h] =>
                    /\ animation_counter'[h] = animation_counter[h] + 1
                    /\ Last(emitted'[h])["kind"] = "frame"
                    /\ Last(emitted'[h])["tick"] = animation_counter'[h]
        /\ (lpc[h] \in {"test", "body"} /\ lpc'[h] \notin {"test", "body"}) =>
              /\ lpc[h] = "test"
              /\ lpc'[h] = "final"
              /\ result_container[h]["done"]

\* C16: a provider call that never returns leaves the flag false for ever; the
\* loop then emits no final answer and, being scheduled, keeps emitting frames
\* whose ticks grow by one each (up to the tick bound of the model); the loop
\* is left only from its test, and only with done = true.
C16_NoTimeout ==
    /\ [](C16_Inv)
    /\ [][C16_Step]_vars
    /\ \A h \in H : (wpc[h] = "hung")
                       ~> (wpc[h] = "hung" /\ animation_counter[h] = MaxTick)

C16_Witness ==
    \E h \in H : /\ wpc[h] = "hung"
                 /\ lpc[h] = "test"
                 /\ animation_counter[h] = MaxTick
                 /\ Last(emitted[h])["tick"] = MaxTick
                 /\ ~result_container[h]["done"]

\* what respond (lines 243-269) yields for the question and starting
\* transcript of handler h after n passes of its loop, with the final yield
\* when fin
RespondRun(h, n, fin) ==
    LET start == SubSeq(chat_history[h], 1, Len(chat_history[h]) - 1)
        hist0 == AppendTurn(start, message[h])
    IN
    [i \in 1..(n + 1 + (IF fin THEN 1 ELSE 0)) |->
        IF i = 1 THEN Emission("placeholder", 0, hist0)
        ELSE IF i <= n + 1
             THEN Emission("frame", NextCounter(i - 2),
                           ReplaceLast(hist0, <<message[h], AnimatedText(h, i - 1)>>))
             ELSE Emission("final", n, ReplaceLast(hist0, FinalTurn(h)))]

C17_Inv ==
    \A h \in H : Active(h) =>
        /\ emitted[h] = RespondRun(h, animation_counter[h], Resolved(h))
        /\ chat_history[h] = Last(emitted[h])["transcript"]
        /\ display = chat_history[h]

C17_Step ==
    \A h \in H :
        /\ (lpc[h] = "idle" /\ lpc'[h] # "idle") =>
              /\ lpc'[h] = "spawn"
              /\ chat_history'[h] = AppendTurn(display, message'[h])
        /\ (lpc[h] = "test" /\ lpc'[h] # "test") =>
              lpc'[h] = IF LoopCondition(h) THEN "body" ELSE "final"
        /\ (lpc[h] = "body" /\ lpc'[h] # "body") =>
              /\ lpc'[h] = "test"
              /\ animation_counter'[h] = NextCounter(animation_counter[h])
        /\ (lpc[h] = "final" /\ lpc'[h] # "final") =>
              /\ lpc'[h] = "resolved"
              /\ Last(chat_history'[h]) = FinalTurn(h)

\* C17: whichever of respond and use_sample_question handles a non-empty
\* question, the transcripts it has yielded, its transcript and the control
\* steps of its loop are those of respond's code for the same question,
\* starting transcript, number of loop passes and stored result.
C17_SameMachine == [](C17_Inv) /\ [][C17_Step]_vars

C17_Witness ==
    \E h \in H : /\ fn[h] = "use_sample_question"
                 /\ Resolved(h)
                 /\ turn_ix[h] = 2
                 /\ last_event["kind"] = "click"
                 /\ turnlog[1]["q"] # message[h]
                 /\ Len(emitted[h]) >= 4
                 /\ emitted[h] = RespondRun(h, animation_counter[h], TRUE)

=============================================================================
